---- MODULE Spec2Model ----
(***************************************************************************)
(* Writing-streak tracker of the diary application (src/app.py, class      *)
(* User): the four persisted streak counters of one user, the UTC clock    *)
(* the methods read, User.update_streak and User.get_streak_info.          *)
(*                                                                         *)
(* Time is counted in ticks; TicksPerDay ticks make one calendar day.  A   *)
(* datetime is a tick number, a date is a day number.  The DateTime        *)
(* columns streak_start_date and last_entry_date are assigned a date,      *)
(* which the column stores as the datetime at midnight of that date.       *)
(***************************************************************************)
EXTENDS Integers, Sequences, FiniteSets, TLC

\* ---------------------------------------------------------------- bounds
MaxDay == 3          \* calendar days 0..MaxDay
TicksPerDay == 2     \* clock readings per calendar day
MaxStreak == 3       \* largest counter value drawn for arbitrary counter states

MaxNow == (MaxDay + 1) * TicksPerDay - 1

\* A NULL column value / Python None.  Counters and datetimes are >= 0.
None == -1

Days == 0..MaxDay
Instants == 0..MaxNow

\* ---------------------------------------------------------------- state
VARIABLES
    user,        \* the persisted counters of the user row
    now,         \* the UTC clock: datetime.now(timezone.utc)
    info,        \* the value returned by the last get_streak_info call (NoInfo before it)
    infoAt,      \* the counters and date of that call
    op,          \* the operation executed last
    branch,      \* the branch the last update_streak call took
    maxCurrent,  \* the largest value current_streak has held
    entries,     \* the diary_entry table: the stored rows in id order
    log,         \* what the last request handler did, step by step
    stats,       \* the stats_data the last stats request computed
    reqs         \* the update_streak executions in flight, one per request

vars == <<user, now, info, infoAt, op, branch, maxCurrent,
          entries, log, stats, reqs>>

\* the state outside the User row and its two methods
appVars == <<entries, log, stats, reqs>>

\* ---------------------------------------------------------------- helpers
\* datetime.date(): the calendar date of a datetime
date(dt) == dt \div TicksPerDay

\* a date assigned to a DateTime column is stored as that date at 00:00
midnight(d) == d * TicksPerDay

\* Python truthiness of a nullable column: None and 0 are falsy
falsy(x) == x = None \/ x = 0

\* Python `x or 0`
orZero(x) == IF falsy(x) THEN 0 ELSE x

Max(a, b) == IF a >= b THEN a ELSE b

\* the row of a newly registered user: column defaults
NewUser ==
    [current_streak    |-> 0,
     longest_streak    |-> 0,
     streak_start_date |-> None,
     last_entry_date   |-> None]

\* ---------------------------------------------------------------- update_streak
\* the branch update_streak takes for counters u on calendar date today;
\* "TypeError" when the consecutive-day branch meets a None counter
\* (None += 1, or int > None)
update_streak_branch(u, today) ==
    IF u.last_entry_date = None THEN "first"
    ELSE IF today = date(u.last_entry_date) THEN "same"
    ELSE IF today = date(u.last_entry_date) + 1 THEN
        IF u.current_streak = None \/ u.longest_streak = None
        THEN "TypeError" ELSE "consecutive"
    ELSE "broken"

\* update_first with the longest streak left at its default
update_first_keepLongest(u, today) ==
    [u EXCEPT !.current_streak = 1,
              !.streak_start_date = midnight(today)]

\* lines 183-185: first entry ever
update_first(u, today) ==
    [u EXCEPT !.current_streak = 1,
              !.longest_streak = 1,
              !.streak_start_date = midnight(today)]

\* update_same counting the second entry of a day as another day
update_same_counts(u, today) ==
    [u EXCEPT !.current_streak = u.current_streak + 1]

\* lines 189-191: same day entry, the streak is not changed
update_same(u, today) == u

\* update_consecutive that never raises longest_streak
update_consecutive_keepLongest(u, today) ==
    LET cur == u.current_streak + 1 IN
    [u EXCEPT !.current_streak = cur,
              !.streak_start_date = IF cur = 1 THEN midnight(today)
                                    ELSE u.streak_start_date]

\* update_consecutive that copies current_streak to longest_streak
\* only when it is smaller (comparison reversed)
update_consecutive_reversed(u, today) ==
    LET cur == u.current_streak + 1 IN
    [u EXCEPT !.current_streak = cur,
              !.longest_streak = IF cur < u.longest_streak
                                 THEN cur ELSE u.longest_streak,
              !.streak_start_date = IF cur = 1 THEN midnight(today)
                                    ELSE u.streak_start_date]

\* lines 192-198: consecutive day (both counters are integers here)
update_consecutive(u, today) ==
    LET cur == u.current_streak + 1 IN
    [u EXCEPT !.current_streak = cur,
              !.longest_streak = IF cur > u.longest_streak
                                 THEN cur ELSE u.longest_streak,
              !.streak_start_date = IF cur = 1 THEN midnight(today)
                                    ELSE u.streak_start_date]

\* update_broken that restarts longest_streak with the new streak
update_broken_resetsLongest(u, today) ==
    [u EXCEPT !.current_streak = 1,
              !.longest_streak = 1,
              !.streak_start_date = midnight(today)]

\* update_broken that starts the new count at 0
update_broken_zero(u, today) ==
    [u EXCEPT !.current_streak = 0,
              !.streak_start_date = midnight(today)]

\* lines 199-202: streak broken, a new one starts
update_broken(u, today) ==
    [u EXCEPT !.current_streak = 1,
              !.streak_start_date = midnight(today)]

\* update_streak that stores last_entry_date only when the streak changed
update_streak_lastOnChange(u, today) ==
    LET b == update_streak_branch(u, today)
        v == CASE b = "first"       -> update_first(u, today)
               [] b = "same"        -> update_same(u, today)
               [] b = "consecutive" -> update_consecutive(u, today)
               [] b = "broken"      -> update_broken(u, today)
               [] OTHER             -> u
    IN  IF b \in {"TypeError", "broken"} THEN v
        ELSE [v EXCEPT !.last_entry_date = midnight(today)]

\* the counters committed by update_streak called on calendar date today;
\* when it raises, nothing is committed and the row keeps its values
update_streak(u, today) ==
    LET b == update_streak_branch(u, today)
        v == CASE b = "first"       -> update_first(u, today)
               [] b = "same"        -> update_same(u, today)
               [] b = "consecutive" -> update_consecutive(u, today)
               [] b = "broken"      -> update_broken(u, today)
               [] OTHER             -> u
    IN  IF b = "TypeError" THEN u
        ELSE [v EXCEPT !.last_entry_date = midnight(today)]

\* ---------------------------------------------------------------- get_streak_info
\* get_streak_info that still reports the stored streak once it is broken
get_streak_info_staleCurrent(u, today) ==
    IF u.last_entry_date = None THEN
        [current |-> 0,
         longest |-> orZero(u.longest_streak),
         status  |-> "no_entries",
         message |-> <<"Start writing to begin your streak!", 0>>]
    ELSE IF today = date(u.last_entry_date) THEN
        [current |-> orZero(u.current_streak),
         longest |-> orZero(u.longest_streak),
         status  |-> "active_today",
         message |-> <<"Great! You've written today. Current streak", orZero(u.current_streak)>>]
    ELSE IF today = date(u.last_entry_date) + 1 THEN
        [current |-> orZero(u.current_streak),
         longest |-> orZero(u.longest_streak),
         status  |-> "can_extend",
         message |-> <<"Write today to extend your streak", orZero(u.current_streak)>>]
    ELSE
        [current |-> orZero(u.current_streak),
         longest |-> orZero(u.longest_streak),
         status  |-> "broken",
         message |-> <<"Your streak ended days ago", today - date(u.last_entry_date)>>]

\* lines 207-242
get_streak_info(u, today) ==
    IF u.last_entry_date = None THEN
        [current |-> 0,
         longest |-> orZero(u.longest_streak),
         status  |-> "no_entries",
         message |-> <<"Start writing to begin your streak!", 0>>]
    ELSE IF today = date(u.last_entry_date) THEN
        [current |-> orZero(u.current_streak),
         longest |-> orZero(u.longest_streak),
         status  |-> "active_today",
         message |-> <<"Great! You've written today. Current streak", orZero(u.current_streak)>>]
    ELSE IF today = date(u.last_entry_date) + 1 THEN
        [current |-> orZero(u.current_streak),
         longest |-> orZero(u.longest_streak),
         status  |-> "can_extend",
         message |-> <<"Write today to extend your streak", orZero(u.current_streak)>>]
    ELSE
        [current |-> 0,
         longest |-> orZero(u.longest_streak),
         status  |-> "broken",
         message |-> <<"Your streak ended days ago", today - date(u.last_entry_date)>>]

\* no get_streak_info call has returned yet
NoInfo == [current |-> None, longest |-> None, status |-> "none", message |-> <<>>]

\* no stats request has been served yet
NoStats == [total_entries |-> None]

\* a mood column that is NULL (mood labels are strings)
NoMood == "None"

\* the id of the logged-in user, and the id of another registered user
current_user == "current_user"
another_user == "another_user"

\* no entry stored, no request served, no update_streak in flight
AppIdle ==
    /\ entries = <<>>
    /\ log = <<>>
    /\ stats = NoStats
    /\ reqs = <<>>

\* ---------------------------------------------------------------- actions
Init ==
    /\ user = NewUser
    /\ now \in Instants
    /\ info = NoInfo
    /\ infoAt = <<NewUser, None>>
    /\ op = "init"
    /\ branch = "none"
    /\ maxCurrent = 0
    /\ AppIdle

\* a request calls current_user.update_streak()
UpdateStreak ==
    LET today == date(now) IN
    /\ user' = update_streak(user, today)
    /\ branch' = update_streak_branch(user, today)
    /\ maxCurrent' = Max(maxCurrent, orZero(user'.current_streak))
    /\ op' = "update_streak"
    /\ UNCHANGED <<now, info, infoAt>>
    /\ UNCHANGED appVars

\* GetStreakInfo that writes the displayed 0 back to a broken streak
GetStreakInfo_zeroesBroken ==
    LET today == date(now)
        r == get_streak_info(user, today) IN
    /\ info' = r
    /\ infoAt' = <<user, today>>
    /\ op' = "get_streak_info"
    /\ user' = IF r.status = "broken"
               THEN [user EXCEPT !.current_streak = 0] ELSE user
    /\ UNCHANGED <<now, branch, maxCurrent>>
    /\ UNCHANGED appVars

\* GetStreakInfo that forgets the last entry of a broken streak
GetStreakInfo_forgetsBroken ==
    LET today == date(now)
        r == get_streak_info(user, today) IN
    /\ info' = r
    /\ infoAt' = <<user, today>>
    /\ op' = "get_streak_info"
    /\ user' = IF r.status = "broken"
               THEN [user EXCEPT !.last_entry_date = None] ELSE user
    /\ UNCHANGED <<now, branch, maxCurrent>>
    /\ UNCHANGED appVars

\* a request calls current_user.get_streak_info()
GetStreakInfo ==
    LET today == date(now) IN
    /\ info' = get_streak_info(user, today)
    /\ infoAt' = <<user, today>>
    /\ op' = "get_streak_info"
    /\ UNCHANGED <<user, now, branch, maxCurrent>>
    /\ UNCHANGED appVars

\* the system clock reads another instant (forward, or backward on skew)
SetClock ==
    \E t \in Instants :
        /\ t # now
        /\ now' = t
        /\ op' = "tick"
        /\ UNCHANGED <<user, info, infoAt, branch, maxCurrent>>
        /\ UNCHANGED appVars

Next == UpdateStreak \/ GetStreakInfo \/ SetClock

Spec == Init /\ [][Next]_vars

\* arbitrary contents of the user row: each counter an integer or NULL,
\* each DateTime column a datetime or NULL
Counters == {None} \cup (0..MaxStreak)
AnyUser ==
    [current_streak    : Counters,
     longest_streak    : Counters,
     streak_start_date : {None} \cup {midnight(d) : d \in Days},
     last_entry_date   : {None} \cup Instants]

InitAny ==
    /\ user \in AnyUser
    /\ now \in Instants
    /\ info = NoInfo
    /\ infoAt = <<NewUser, None>>
    /\ op = "init"
    /\ branch = "none"
    /\ maxCurrent = 0
    /\ AppIdle

NextInfo == GetStreakInfo \/ SetClock

\* get_streak_info applied to every row and every clock reading
SpecInfo == InitAny /\ [][NextInfo]_vars

NextUpdate == UpdateStreak \/ SetClock

\* update_streak applied to every row and every clock reading
SpecUpdate == InitAny /\ [][NextUpdate]_vars

\* update_streak calls of a newly registered user, at arbitrary dates
SpecNewUser == Init /\ [][NextUpdate]_vars

\* ================================================================ request handlers
\* ---------------------------------------------------------------- bounds
MaxEntries == 1      \* rows the diary_entry table holds at most
MaxAppNow == 2       \* last clock reading of the request handlers' runs

\* ---------------------------------------------------------------- form input
\* A stripped text is the sequence of the lengths of its words, the words
\* separated by single spaces.
MinContentLen == 10
MaxContentLen == 10000

RECURSIVE SumSeq(_)
SumSeq(q) == IF q = <<>> THEN 0 ELSE Head(q) + SumSeq(Tail(q))

\* len(content)
text_len(t) == IF t = <<>> THEN 0 ELSE SumSeq(t) + Len(t) - 1

\* len(content.split())
text_words(t) == Len(t)

\* the contents a form submits: empty, too short, two valid ones, too long
Texts == { <<>>, <<4>>, <<4, 5, 5>>, <<5, 5>>, <<MaxContentLen + 1>> }

\* the content passes the handlers' validation
text_valid(t) ==
    t # <<>> /\ text_len(t) >= MinContentLen /\ text_len(t) <= MaxContentLen

\* the outcomes of a commit that is reached (only success is listed for
\* one that is not)
Outcomes(reached) == IF reached THEN BOOLEAN ELSE {TRUE}

Range(q) == {q[i] : i \in DOMAIN q}

Count(x, q) == Cardinality({i \in DOMAIN q : q[i] = x})

\* position of the first x in q, 0 when there is none
IndexOf(x, q) ==
    IF x \in Range(q) THEN CHOOSE i \in DOMAIN q : q[i] = x /\ \A j \in 1..(i-1) : q[j] # x
    ELSE 0

\* ---------------------------------------------------------------- diary_entry rows
\* INTEGER PRIMARY KEY: the id of a new row
next_id(rows) ==
    IF rows = <<>> THEN 1
    ELSE 1 + (CHOOSE m \in {rows[i].id : i \in DOMAIN rows} :
                 \A i \in DOMAIN rows : rows[i].id <= m)

\* the ids the runs use: a row is added only while its id is one of them
EntryIds == 1..(MaxEntries + 1)

\* DiaryEntry(...) as the write handler builds it; the timestamp default
\* reads the clock when the row is flushed
new_entry(rows, content, t) ==
    [id          |-> next_id(rows),
     user_id     |-> current_user,
     content     |-> content,
     word_count  |-> text_words(content),
     is_favorite |-> FALSE,
     mood        |-> NoMood,
     tags        |-> <<>>,
     category_id |-> None,
     timestamp   |-> t]

\* find_entry that looks the entry up by its id alone
find_entry_anyUser(rows, id) ==
    IF \E i \in DOMAIN rows : rows[i].id = id
    THEN CHOOSE i \in DOMAIN rows : rows[i].id = id
    ELSE 0

\* DiaryEntry.query.filter_by(id=entry_id, user_id=current_user.id).first():
\* the place of the row in the table, 0 when there is none
find_entry(rows, id) ==
    IF \E i \in DOMAIN rows : rows[i].id = id /\ rows[i].user_id = current_user
    THEN CHOOSE i \in DOMAIN rows : rows[i].id = id /\ rows[i].user_id = current_user
    ELSE 0

RECURSIVE without(_, _)
without(rows, i) ==
    IF rows = <<>> THEN <<>>
    ELSE IF i = 1 THEN Tail(rows)
    ELSE <<Head(rows)>> \o without(Tail(rows), i - 1)

\* ---------------------------------------------------------------- write
\* write_flow that updates the streak before it stores the entry
write_flow_streakFirst(content, entryOk, b, streakOk) ==
    IF content = <<>> THEN <<"flash_empty", "render_form">>
    ELSE IF text_len(content) < MinContentLen THEN <<"flash_too_short", "render_form">>
    ELSE IF text_len(content) > MaxContentLen THEN <<"flash_too_long", "render_form">>
    ELSE IF b = "TypeError" THEN
        <<"update_streak", "TypeError", "rollback", "flash_error", "render_form">>
    ELSE IF ~streakOk THEN
        <<"update_streak", "commit_streak_failed",
          "rollback", "flash_error", "render_form">>
    ELSE IF ~entryOk THEN
        <<"update_streak", "commit_streak", "commit_entry_failed",
          "rollback", "flash_error", "render_form">>
    ELSE
        <<"update_streak", "commit_streak", "commit_entry",
          "flash_saved", "redirect_dashboard">>

\* the steps of a POST to /write, in order: content is the submitted text,
\* entryOk whether the commit of the entry succeeds, b the branch
\* update_streak takes, streakOk whether its commit succeeds
write_flow(content, entryOk, b, streakOk) ==
    IF content = <<>> THEN <<"flash_empty", "render_form">>
    ELSE IF text_len(content) < MinContentLen THEN <<"flash_too_short", "render_form">>
    ELSE IF text_len(content) > MaxContentLen THEN <<"flash_too_long", "render_form">>
    ELSE IF ~entryOk THEN
        <<"commit_entry_failed", "rollback", "flash_error", "render_form">>
    ELSE IF b = "TypeError" THEN
        <<"commit_entry", "update_streak", "TypeError",
          "rollback", "flash_error", "render_form">>
    ELSE IF ~streakOk THEN
        <<"commit_entry", "update_streak", "commit_streak_failed",
          "rollback", "flash_error", "render_form">>
    ELSE
        <<"commit_entry", "update_streak", "commit_streak",
          "flash_saved", "redirect_dashboard">>

\* Write that keeps the counters update_streak computed when their commit
\* has failed
Write_keepsCounters ==
    \E content \in Texts :
    \E entryOk \in Outcomes(text_valid(content)) :
    \E streakOk \in Outcomes(text_valid(content) /\ entryOk) :
    \E t2 \in IF text_valid(content) /\ entryOk
              THEN {now, now + 1} \cap (0..MaxAppNow) ELSE {now} :
        LET today == date(t2)
            b     == update_streak_branch(user, today)
            flow  == write_flow(content, entryOk, b, streakOk) IN
        /\ Len(entries) < MaxEntries
        /\ next_id(entries) \in EntryIds
        /\ log' = flow
        /\ entries' = IF "commit_entry" \in Range(flow)
                      THEN Append(entries, new_entry(entries, content, now))
                      ELSE entries
        /\ user' = IF "update_streak" \in Range(flow) /\ b # "TypeError"
                   THEN update_streak(user, today) ELSE user
        /\ branch' = IF "update_streak" \in Range(flow) THEN b ELSE branch
        /\ now' = IF "update_streak" \in Range(flow) THEN t2 ELSE now
        /\ maxCurrent' = Max(maxCurrent, orZero(user'.current_streak))
        /\ op' = "write"
        /\ UNCHANGED <<info, infoAt, stats, reqs>>

\* POST /write.  The entry's timestamp is read from the clock when the row
\* is flushed; update_streak reads the clock again, at t2.
Write ==
    \E content \in Texts :
    \E entryOk \in Outcomes(text_valid(content)) :
    \E streakOk \in Outcomes(text_valid(content) /\ entryOk) :
    \E t2 \in IF text_valid(content) /\ entryOk
              THEN {now, now + 1} \cap (0..MaxAppNow) ELSE {now} :
        LET today == date(t2)
            b     == update_streak_branch(user, today)
            flow  == write_flow(content, entryOk, b, streakOk) IN
        /\ Len(entries) < MaxEntries
        /\ next_id(entries) \in EntryIds
        /\ log' = flow
        /\ entries' = IF "commit_entry" \in Range(flow)
                      THEN Append(entries, new_entry(entries, content, now))
                      ELSE entries
        /\ user' = IF "commit_streak" \in Range(flow)
                   THEN update_streak(user, today) ELSE user
        /\ branch' = IF "update_streak" \in Range(flow) THEN b ELSE branch
        /\ now' = IF "update_streak" \in Range(flow) THEN t2 ELSE now
        /\ maxCurrent' = Max(maxCurrent, orZero(user'.current_streak))
        /\ op' = "write"
        /\ UNCHANGED <<info, infoAt, stats, reqs>>

\* ---------------------------------------------------------------- edit_entry
\* POST /edit/<entry_id> for the entry id
EditEntryOf(id) ==
    \E content \in Texts :
    \E ok \in Outcomes(find_entry(entries, id) # 0 /\ text_valid(content)) :
        LET i == find_entry(entries, id) IN
        /\ log' = IF i = 0 THEN <<"not_found">>
                  ELSE IF content = <<>> THEN <<"render_form">>
                  ELSE IF text_len(content) < MinContentLen
                       THEN <<"flash_too_short", "render_form">>
                  ELSE IF text_len(content) > MaxContentLen
                       THEN <<"flash_too_long", "render_form">>
                  ELSE IF ok THEN <<"commit_edit", "flash_updated", "redirect_dashboard">>
                  ELSE <<"commit_edit_failed", "rollback", "flash_error", "render_form">>
        /\ entries' = IF "commit_edit" \in Range(log')
                      THEN [entries EXCEPT ![i].content = content]
                      ELSE entries
        /\ op' = "edit_entry"
        /\ UNCHANGED <<user, now, info, infoAt, branch, maxCurrent, stats, reqs>>

\* POST /edit/<entry_id>
EditEntry == \E id \in EntryIds : EditEntryOf(id)

\* ---------------------------------------------------------------- delete_entry
\* DeleteEntry that also takes the deleted day off the streak
DeleteEntry_recounts ==
    \E id \in EntryIds :
    \E ok \in Outcomes(find_entry(entries, id) # 0) :
        LET i == find_entry(entries, id) IN
        /\ log' = IF i = 0 THEN <<"not_found">>
                  ELSE IF ok THEN <<"commit_delete", "flash_deleted", "redirect_dashboard">>
                  ELSE <<"commit_delete_failed", "rollback", "flash_error", "redirect_dashboard">>
        /\ entries' = IF "commit_delete" \in Range(log')
                      THEN without(entries, i) ELSE entries
        /\ user' = IF "commit_delete" \in Range(log') /\ orZero(user.current_streak) > 0
                   THEN [user EXCEPT !.current_streak = user.current_streak - 1]
                   ELSE user
        /\ op' = "delete_entry"
        /\ UNCHANGED <<now, info, infoAt, branch, maxCurrent, stats, reqs>>

\* POST /delete/<entry_id> for the entry id
DeleteEntryOf(id) ==
    \E ok \in Outcomes(find_entry(entries, id) # 0) :
        LET i == find_entry(entries, id) IN
        /\ log' = IF i = 0 THEN <<"not_found">>
                  ELSE IF ok THEN <<"commit_delete", "flash_deleted", "redirect_dashboard">>
                  ELSE <<"commit_delete_failed", "rollback", "flash_error", "redirect_dashboard">>
        /\ entries' = IF "commit_delete" \in Range(log')
                      THEN without(entries, i) ELSE entries
        /\ op' = "delete_entry"
        /\ UNCHANGED <<user, now, info, infoAt, branch, maxCurrent, stats, reqs>>

\* POST /delete/<entry_id>
DeleteEntry == \E id \in EntryIds : DeleteEntryOf(id)

\* ---------------------------------------------------------------- toggle_favorite
\* POST /toggle_favorite/<entry_id> for the entry id
ToggleFavoriteOf(id) ==
    \E ok \in Outcomes(find_entry(entries, id) # 0) :
        LET i == find_entry(entries, id) IN
        /\ log' = IF i = 0 THEN <<"not_found">>
                  ELSE IF ok THEN <<"commit_favorite", "json_success">>
                  ELSE <<"commit_favorite_failed", "rollback", "json_error">>
        /\ entries' = IF "commit_favorite" \in Range(log')
                      THEN [entries EXCEPT ![i].is_favorite = ~entries[i].is_favorite]
                      ELSE entries
        /\ op' = "toggle_favorite"
        /\ UNCHANGED <<user, now, info, infoAt, branch, maxCurrent, stats, reqs>>

\* POST /toggle_favorite/<entry_id>
ToggleFavorite == \E id \in EntryIds : ToggleFavoriteOf(id)

\* ---------------------------------------------------------------- view_entry
\* GET /entry/<entry_id> for the entry id
ViewEntryOf(id) ==
    /\ log' = IF find_entry(entries, id) = 0 THEN <<"not_found">>
              ELSE <<"render_entry">>
    /\ op' = "view_entry"
    /\ UNCHANGED <<user, now, info, infoAt, branch, maxCurrent, entries, stats, reqs>>

\* GET /entry/<entry_id>
ViewEntry == \E id \in EntryIds : ViewEntryOf(id)

\* ---------------------------------------------------------------- restore_backup
\* the entries of an uploaded backup file: the id the entry had, its
\* content, and its timestamp (None when the file gives none)
BackupEntries ==
    [id : 1..MaxEntries, content : {<<4, 5, 5>>}, timestamp : {None, 0}]

\* the uploaded files: one entry, or MaxEntries copies of one entry
Backups ==
    UNION { {[i \in 1..n |-> e] : e \in BackupEntries} : n \in {1, MaxEntries} }

\* lines 1021-1042: every backup entry whose id is not found is added as a
\* new row; the query flushes the rows added before it
RECURSIVE restore_entries(_, _, _)
restore_entries(rows, backup, t) ==
    IF backup = <<>> THEN rows
    ELSE LET e == Head(backup) IN
         IF find_entry(rows, e.id) # 0
         THEN restore_entries(rows, Tail(backup), t)
         ELSE restore_entries(
                  Append(rows,
                         [new_entry(rows, e.content, t) EXCEPT
                              !.timestamp = IF e.timestamp = None THEN t
                                            ELSE e.timestamp]),
                  Tail(backup), t)

\* POST /backup with action=restore_backup and a well-formed file
RestoreBackup ==
    \E backup \in Backups, ok \in BOOLEAN :
        LET rows == restore_entries(entries, backup, now) IN
        /\ Len(rows) <= MaxEntries
        /\ \A i \in DOMAIN rows : rows[i].id \in EntryIds
        /\ log' = IF ok THEN <<"commit_restore", "flash_restored", "redirect_backup">>
                  ELSE <<"commit_restore_failed", "rollback", "flash_error", "redirect_backup">>
        /\ entries' = IF ok THEN rows ELSE entries
        /\ op' = "restore_backup"
        /\ UNCHANGED <<user, now, info, infoAt, branch, maxCurrent, stats, reqs>>

\* ---------------------------------------------------------------- clock
\* time passes between requests
Tick ==
    /\ now < MaxAppNow
    /\ now' = now + 1
    /\ UNCHANGED <<user, info, infoAt, op, branch, maxCurrent, entries, log, stats, reqs>>

NextApp ==
    Write \/ EditEntry \/ DeleteEntry \/ ToggleFavorite \/ RestoreBackup \/ Tick

\* the request handlers that touch diary entries, from a new user
InitApp == Init /\ now = 0

NextEntries ==
    Write \/ EditEntry \/ DeleteEntry \/ ToggleFavorite \/ Tick

\* the handlers that write, edit, delete and pin entries, from a new user
SpecEntries == InitApp /\ [][NextEntries]_vars

\* the same with uploads of backup files

SpecApp == InitApp /\ [][NextApp]_vars

\* ================================================================ concurrent update_streak
\* Each request runs update_streak in its own session: it reads the clock
\* and loads the user row (lines 179-181), computes the new counters in
\* memory, and db.session.commit() writes the columns it changed (line 205).
TwoRequests == 1..2

\* the columns the UPDATE of a request sets: a counter when its new value
\* differs from the loaded one, streak_start_date when the branch assigns
\* it, last_entry_date always (the date assigned is never equal to the
\* datetime loaded)
flush_columns(snap, new, b) ==
    (IF new.current_streak # snap.current_streak THEN {"current_streak"} ELSE {})
    \cup (IF new.longest_streak # snap.longest_streak THEN {"longest_streak"} ELSE {})
    \cup (IF b \in {"first", "broken"} \/ (b = "consecutive" /\ new.current_streak = 1)
          THEN {"streak_start_date"} ELSE {})
    \cup {"last_entry_date"}

\* the row after the UPDATE: the columns set take the request's values
flush(stored, snap, new, b) ==
    [col \in DOMAIN stored |->
        IF col \in flush_columns(snap, new, b) THEN new[col] ELSE stored[col]]

\* a request enters update_streak: it reads the date and loads the row
BeginUpdate ==
    /\ Len(reqs) < Cardinality(TwoRequests)
    /\ reqs' = Append(reqs,
                      [pc      |-> "loaded",
                       today   |-> date(now),
                       snap    |-> user,
                       overlap |-> (reqs # <<>> /\ reqs[1].pc = "loaded")])
    /\ UNCHANGED <<user, now, info, infoAt, op, branch, maxCurrent, entries, log, stats>>

\* a request commits what it computed from the row it loaded
CommitUpdate ==
    \E i \in DOMAIN reqs :
        LET q == reqs[i]
            b == update_streak_branch(q.snap, q.today)
            new == update_streak(q.snap, q.today) IN
        /\ q.pc = "loaded"
        /\ user' = IF b = "TypeError" THEN user ELSE flush(user, q.snap, new, b)
        /\ reqs' = [reqs EXCEPT ![i].pc = "done"]
        /\ branch' = b
        /\ op' = "update_streak"
        /\ maxCurrent' = Max(maxCurrent, orZero(user'.current_streak))
        /\ UNCHANGED <<now, info, infoAt, entries, log, stats>>

\* an update_streak call that runs alone, before the two requests
SerialUpdate ==
    /\ reqs = <<>>
    /\ UpdateStreak

NextRace == SerialUpdate \/ BeginUpdate \/ CommitUpdate \/ Tick

\* two requests of one user running update_streak at the same time
SpecRace == InitApp /\ [][NextRace]_vars

\* ================================================================ statistics
\* stats(), lines 775-880.  Mood labels are written without their emoji.
PositiveMoods == {"Happy", "Excited", "Peaceful"}
ImprovementMinEntries == 10
TopTags == 10

Min(a, b) == IF a <= b THEN a ELSE b

\* Python truth of a mood column: NULL and the empty string are false
has_mood(m) == m # NoMood /\ m # ""

\* filter_by(user_id=current_user.id): the rows of the logged-in user
own_entries(rows) ==
    LET own(e) == e.user_id = current_user IN
    SelectSeq(rows, own)

\* the rows in rowid order, the order in which the table holds them
by_rowid(rows) == rows

\* q with row e put behind every row whose timestamp is not later
insert_by_timestamp(q, e) ==
    LET k == Cardinality({i \in DOMAIN q : q[i].timestamp <= e.timestamp}) IN
    SubSeq(q, 1, k) \o <<e>> \o SubSeq(q, k + 1, Len(q))

\* the rows in the order of the index idx_user_timestamp (lines 297-298):
\* timestamp ascending, rowid ascending among equal timestamps
RECURSIVE by_timestamp(_)
by_timestamp(rows) ==
    IF rows = <<>> THEN <<>>
    ELSE insert_by_timestamp(by_timestamp(SubSeq(rows, 1, Len(rows) - 1)),
                             rows[Len(rows)])

\* line 781: the query has no ORDER BY; the rows come in the order of the
\* scan the engine chooses, the table or an index on user_id
query_all(rows) == {by_rowid(own_entries(rows)), by_timestamp(own_entries(rows))}

\* a defaultdict(int) after `d[k] += 1` for every k of keys, as the
\* sequence of its items: the keys in the order in which they are first
\* met, each with the number of its occurrences
RECURSIVE tally(_)
tally(keys) ==
    IF keys = <<>> THEN <<>>
    ELSE LET k == Head(keys)
             other(x) == x # k IN
         <<[key |-> k, n |-> Count(k, keys)]>> \o tally(SelectSeq(keys, other))

moods_of(es) == [i \in DOMAIN es |-> es[i].mood]

\* lines 796-799
mood_stats(es) == tally(SelectSeq(moods_of(es), has_mood))

\* line 835 with the last of the labels of highest count
most_common_mood_last(ms) ==
    IF ms = <<>> THEN NoMood
    ELSE LET best == {i \in DOMAIN ms : \A j \in DOMAIN ms : ms[j].n <= ms[i].n} IN
         ms[CHOOSE i \in best : \A j \in best : j <= i].key

\* line 835: max() returns the first item of highest count
most_common_mood(ms) ==
    IF ms = <<>> THEN NoMood
    ELSE LET best == {i \in DOMAIN ms : \A j \in DOMAIN ms : ms[j].n <= ms[i].n} IN
         ms[CHOOSE i \in best : \A j \in best : i <= j].key

\* lines 846-847: the moods of h that are positive
positive_count(h) ==
    LET positive(m) == has_mood(m) /\ m \in PositiveMoods IN
    Len(SelectSeq(moods_of(h), positive))

\* lines 838-851 with the halves named the other way round
mood_improvement_swapped(es) ==
    IF Len(es) >= ImprovementMinEntries
    THEN LET midpoint == Len(es) \div 2
             first_half == SubSeq(es, 1, midpoint)
             second_half == SubSeq(es, midpoint + 1, Len(es)) IN
         <<positive_count(second_half) - positive_count(first_half)>>
    ELSE <<>>

\* lines 838-851: <<v>> for the value v, <<>> for None
mood_improvement(es) ==
    IF Len(es) >= ImprovementMinEntries
    THEN LET midpoint == Len(es) \div 2
             first_half == SubSeq(es, midpoint + 1, Len(es))
             second_half == SubSeq(es, 1, midpoint) IN
         <<positive_count(second_half) - positive_count(first_half)>>
    ELSE <<>>

\* lines 303-310: the list the tags column holds
get_tags_list(e) == e.tags

\* lines 863-865: the tags of all entries in the order of iteration
RECURSIVE all_tags(_)
all_tags(es) ==
    IF es = <<>> THEN <<>>
    ELSE get_tags_list(Head(es)) \o all_tags(Tail(es))

\* q with item x put behind every item whose count is not smaller
insert_by_count(q, x) ==
    LET k == Cardinality({i \in DOMAIN q : q[i].n >= x.n}) IN
    SubSeq(q, 1, k) \o <<x>> \o SubSeq(q, k + 1, Len(q))

\* sorted(items, key=count, reverse=True): stable, equal counts keep
\* their order
RECURSIVE sorted_by_count(_)
sorted_by_count(items) ==
    IF items = <<>> THEN <<>>
    ELSE insert_by_count(sorted_by_count(SubSeq(items, 1, Len(items) - 1)),
                         items[Len(items)])

\* line 877 without the slice
tag_stats_all(es) == sorted_by_count(tally(all_tags(es)))

\* lines 862-865 and 877
tag_stats(es) ==
    LET s == sorted_by_count(tally(all_tags(es))) IN
    SubSeq(s, 1, Min(TopTags, Len(s)))

\* line 870 rounding down to the tenth below
round1_down(total, n) == (10 * total) \div n

\* line 870: round(total / n, 1), in tenths.  A quotient half way between
\* two tenths has a fraction of one or three quarters when n < 20, which
\* a float holds exactly, and round() takes it to the even tenth.
round1(total, n) ==
    LET q == (10 * total) \div n
        r == (10 * total) % n IN
    IF 2 * r < n THEN q
    ELSE IF 2 * r > n THEN q + 1
    ELSE IF q % 2 = 0 THEN q ELSE q + 1

\* lines 786 and 870 with no average for no entries
avg_words_null(total, n) == IF n > 0 THEN round1(total, n) ELSE None

\* lines 786 and 870, in tenths of a word
avg_words(total, n) == IF n > 0 THEN round1(total, n) ELSE 0

\* strftime('%Y-%m-%d') of a timestamp: its calendar day
day_key(ts) == date(ts)

DaysPerMonth == 30      \* calendar days of a month

\* strftime('%Y-%m') of a timestamp: its month
month_key(ts) == date(ts) \div DaysPerMonth

\* lines 790-793
monthly_stats(rows) == tally([i \in DOMAIN rows |-> month_key(rows[i].timestamp)])

RecentDays == 30

\* lines 802-826 keeping every entry
recent_entries_all(rows, t) == rows

\* lines 802-826: the entries not older than thirty days at clock reading t
recent_entries(rows, t) ==
    LET recent(e) == e.timestamp >= t - RecentDays * TicksPerDay IN
    SelectSeq(rows, recent)

\* lines 828-832: the items of the dict of lists, a day is inserted when
\* an entry of that day is first met
mood_trends(rows, t) ==
    LET moody(e) == has_mood(e.mood)
        r == SelectSeq(recent_entries(rows, t), moody)
        days == tally([i \in DOMAIN r |-> day_key(r[i].timestamp)]) IN
    [k \in DOMAIN days |->
        LET on(e) == day_key(e.timestamp) = days[k].key IN
        [key |-> days[k].key, moods |-> moods_of(SelectSeq(r, on))]]

\* lines 385-391: the categories a user has after registration, by id
Categories == <<"General", "Work", "Personal", "Travel", "Health">>

\* lines 854-859
category_stats(rows) ==
    LET named(e) == ~falsy(e.category_id) /\ e.category_id \in DOMAIN Categories
        r == SelectSeq(rows, named) IN
    tally([i \in DOMAIN r |-> Categories[r[i].category_id]])

\* lines 781-878: the rows as queried and the statistics shown
stats_data(rows) ==
    [entries          |-> rows,
     total_entries    |-> Len(rows),
     total_words      |-> SumSeq([i \in DOMAIN rows |-> rows[i].word_count]),
     avg_words        |-> avg_words(SumSeq([i \in DOMAIN rows |-> rows[i].word_count]),
                                    Len(rows)),
     monthly_stats    |-> monthly_stats(rows),
     mood_trends      |-> mood_trends(rows, now),
     category_stats   |-> category_stats(rows),
     mood_stats       |-> mood_stats(rows),
     most_common_mood |-> most_common_mood(mood_stats(rows)),
     mood_improvement |-> mood_improvement(rows),
     tag_stats        |-> tag_stats(rows)]

\* GET /stats
Stats ==
    \E rows \in query_all(entries) :
        /\ stats' = stats_data(rows)
        /\ log' = <<"render_stats">>
        /\ op' = "stats"
        /\ UNCHANGED <<user, now, info, infoAt, branch, maxCurrent, entries, reqs>>

NextStats == Stats

\* ---------------------------------------------------------------- tables
MaxStatEntries == 12    \* rows of the tables of the mood improvement runs
MaxMoodEntries == 4     \* rows of the tables of the mood count runs
MaxTagEntries == 3      \* rows of the tables of the tag count runs
MaxTag == 12            \* tags are 1..MaxTag

\* row i of a table of n rows: written one after the other the rows have
\* ascending timestamps, restored from a backup listed newest first they
\* have descending ones (lines 1038-1040)
stat_entry(i, n, mood, tags, order) ==
    [id          |-> i,
     user_id     |-> current_user,
     content     |-> <<4, 5, 5>>,
     word_count  |-> 3,
     is_favorite |-> FALSE,
     mood        |-> mood,
     tags        |-> tags,
     category_id |-> None,
     timestamp   |-> IF order = "written" THEN i - 1 ELSE n - i]

Orders == {"written", "restored"}

\* the moods a row of the mood improvement tables may have, by row number:
\* a positive label and another one
PositiveAt(i) == <<"Happy", "Excited", "Peaceful">>[(i % 3) + 1]
OtherAt(i) == <<"Sad", NoMood, "Anxious">>[(i % 3) + 1]

MoodLabels == {"Happy", "Sad", NoMood, ""}

AllTags == [i \in 1..MaxTag |-> i]

TagLists == { <<>>, AllTags, <<MaxTag, MaxTag - 1>>, <<MaxTag - 1>>, <<2, 2>> }

\* a user who has the rows of a table and has requested nothing yet, at
\* clock reading t
InitTableAt(rows, t) ==
    /\ user = NewUser
    /\ now = t
    /\ info = NoInfo
    /\ infoAt = <<NewUser, None>>
    /\ op = "init"
    /\ branch = "none"
    /\ maxCurrent = 0
    /\ entries = rows
    /\ log = <<>>
    /\ stats = NoStats
    /\ reqs = <<>>

InitTable(rows) == InitTableAt(rows, 0)

InitImprovement ==
    \E n \in 0..MaxStatEntries : \E good \in [1..n -> BOOLEAN] : \E order \in Orders :
        InitTable([i \in 1..n |->
                      stat_entry(i, n, IF good[i] THEN PositiveAt(i) ELSE OtherAt(i),
                                 <<>>, order)])

InitMoods ==
    \E n \in 0..MaxMoodEntries : \E m \in [1..n -> MoodLabels] :
        InitTable([i \in 1..n |-> stat_entry(i, n, m[i], <<>>, "written")])

InitTags ==
    \E n \in 0..MaxTagEntries : \E t \in [1..n -> TagLists] :
        InitTable([i \in 1..n |-> stat_entry(i, n, NoMood, t[i], "written")])

InitStats == InitMoods \/ InitTags

MaxWordEntries == 4     \* rows of the tables of the word count runs

WordCounts == {0, 1, 2, 100, 200, 300}

\* tables of entries that differ in their word counts; every other entry
\* has the first category
InitWords ==
    \E n \in 0..MaxWordEntries : \E wc \in [1..n -> WordCounts] :
        InitTable([i \in 1..n |->
                      [stat_entry(i, n, NoMood, <<>>, "written")
                          EXCEPT !.word_count = wc[i],
                                 !.category_id = IF i % 2 = 0 THEN 1 ELSE None]])

\* the statistics page over tables of entries of several lengths
SpecWords == InitWords /\ [][NextStats]_vars

MaxTrendEntries == 3    \* rows of the tables of the mood trend runs

\* the clock reading of the mood trend runs, and the reading thirty days
\* before it
TrendNow == (RecentDays + 2) * TicksPerDay + 1
TrendCutoff == TrendNow - RecentDays * TicksPerDay

\* timestamps just before, at and after the thirty days limit
TrendTimes == {TrendCutoff - 1, TrendCutoff, TrendCutoff + 1, TrendNow}

TrendMoods == {"Happy", "Sad", NoMood}

\* tables of entries around the thirty days limit, in any order of time
InitTrends ==
    \E n \in 0..MaxTrendEntries :
    \E m \in [1..n -> TrendMoods] : \E ts \in [1..n -> TrendTimes] :
        InitTableAt([i \in 1..n |->
                        [stat_entry(i, n, m[i], <<>>, "written")
                            EXCEPT !.timestamp = ts[i]]],
                    TrendNow)

\* the statistics page over tables of entries around the thirty days limit
SpecTrends == InitTrends /\ [][NextStats]_vars

\* a table of MaxEntries + 1 rows of the logged-in user and of another one
InitOwners ==
    \E owner \in [EntryIds -> {current_user, another_user}] :
    \E fav \in [EntryIds -> BOOLEAN] :
        InitTable([i \in EntryIds |->
                      [stat_entry(i, MaxEntries + 1, NoMood, <<>>, "written")
                          EXCEPT !.user_id = owner[i], !.is_favorite = fav[i]]])

NextOwners == ViewEntry \/ EditEntry \/ DeleteEntry \/ ToggleFavorite

\* requests for single entries over a table shared with another user
SpecOwners == InitOwners /\ [][NextOwners]_vars

\* the statistics page over tables of up to MaxStatEntries rows
SpecImprovement == InitImprovement /\ [][NextStats]_vars

\* the statistics page over tables with moods and with tags
SpecStats == InitStats /\ [][NextStats]_vars

\* ================================================================ properties
\* the calendar date the clock shows
Today == date(now)

\* the last operation was a completed update_streak call
AfterUpdate == op = "update_streak"

\* C1: immediately after every update_streak call, longest_streak is at
\* least current_streak.
C1_LongestAtLeastCurrent ==
    AfterUpdate => user.longest_streak >= user.current_streak

\* a consecutive-day call has raised longest_streak together with
\* current_streak
C1_Witness ==
    /\ AfterUpdate
    /\ branch = "consecutive"
    /\ user.current_streak = 3
    /\ user.longest_streak = 3

\* C2: an update_streak call made exactly one day after last_entry_date
\* adds 1 to current_streak and sets longest_streak to the maximum of its
\* previous value and the new current_streak.
C2_ConsecutiveDay ==
    [][ ( /\ op' = "update_streak"
          /\ user.last_entry_date # None
          /\ Today = date(user.last_entry_date) + 1 )
        => ( /\ user'.current_streak = user.current_streak + 1
             /\ user'.longest_streak =
                    Max(user.longest_streak, user'.current_streak) ) ]_vars

\* a consecutive-day call has grown a streak that is shorter than the maximum
C2_Witness ==
    /\ AfterUpdate
    /\ branch = "consecutive"
    /\ user.current_streak = 2
    /\ user.longest_streak = 3

\* C3: an update_streak call made two or more days after last_entry_date,
\* or before it, sets current_streak to 1 and streak_start_date to today
\* and keeps longest_streak.
C3_BrokenStreak ==
    [][ ( /\ op' = "update_streak"
          /\ user.last_entry_date # None
          /\ \/ Today >= date(user.last_entry_date) + 2
             \/ Today < date(user.last_entry_date) )
        => ( /\ user'.current_streak = 1
             /\ user'.streak_start_date # None
             /\ date(user'.streak_start_date) = Today
             /\ user'.longest_streak = user.longest_streak ) ]_vars

\* a streak of at least 2 has been broken
C3_Witness ==
    /\ AfterUpdate
    /\ branch = "broken"
    /\ user.current_streak = 1
    /\ user.longest_streak >= 2

\* C4: an update_streak call made on the calendar day of the previous call
\* leaves the four counters as they were.
C4_SameDay ==
    [][ ( /\ op' = "update_streak"
          /\ user.last_entry_date # None
          /\ Today = date(user.last_entry_date) )
        => user' = user ]_vars

\* a second call of the day has run on a streak of 2, later than midnight
C4_Witness ==
    /\ AfterUpdate
    /\ branch = "same"
    /\ user.current_streak = 2
    /\ now # midnight(Today)

\* C5: an update_streak call for a user without last_entry_date sets
\* current_streak = 1, longest_streak = 1 and streak_start_date = today.
C5_FirstEntry ==
    [][ ( /\ op' = "update_streak"
          /\ user.last_entry_date = None )
        => ( /\ user'.current_streak = 1
             /\ user'.longest_streak = 1
             /\ user'.streak_start_date # None
             /\ date(user'.streak_start_date) = Today ) ]_vars

\* the first entry ever has just been recorded
C5_Witness ==
    /\ AfterUpdate
    /\ branch = "first"
    /\ user.current_streak = 1

\* C6: longest_streak never decreases, and it always equals the largest
\* value current_streak has held so far.
C6_HistoricalMaximum ==
    /\ [](user.longest_streak = maxCurrent)
    /\ [][user'.longest_streak >= user.longest_streak]_vars

\* the maximum is held by an earlier streak, not by the current one
C6_Witness ==
    /\ AfterUpdate
    /\ maxCurrent = 3
    /\ user.current_streak = 2

\* C7: after every update_streak call, last_entry_date is the calendar
\* date on which the call was made.
C7_LastEntryIsToday ==
    AfterUpdate =>
        /\ user.last_entry_date # None
        /\ date(user.last_entry_date) = Today

\* a broken streak has been restarted on an earlier date than the streak
\* it replaces (clock skew)
C7_Witness ==
    /\ AfterUpdate
    /\ branch = "broken"
    /\ Today = 0
    /\ user.longest_streak >= 2
\* the status get_streak_info reports in the current state
StatusNow == get_streak_info(user, Today).status

\* the value of a counter, 0 standing for an unset one
Value(c) == IF c = None THEN 0 ELSE c

\* C8: get_streak_info classifies every row and date into exactly one
\* status: no_entries without last_entry_date (current 0), active_today
\* when last_entry_date is today (current_streak), can_extend when it is
\* yesterday (current_streak), broken otherwise (current 0, days elapsed
\* today - last_entry_date); longest is longest_streak, 0 when unset.
C8_Classification ==
    op = "get_streak_info" =>
        LET last == user.last_entry_date IN
        /\ info.status \in {"no_entries", "active_today", "can_extend", "broken"}
        /\ info.status = "no_entries" <=> last = None
        /\ info.status = "active_today" <=> (last # None /\ date(last) = Today)
        /\ info.status = "can_extend" <=> (last # None /\ date(last) = Today - 1)
        /\ info.status = "broken" <=>
               (last # None /\ date(last) # Today /\ date(last) # Today - 1)
        /\ info.status \in {"no_entries", "broken"} => info.current = 0
        /\ info.status \in {"active_today", "can_extend"} =>
               info.current = Value(user.current_streak)
        /\ info.status = "broken" => info.message[2] = Today - date(last)
        /\ info.longest = Value(user.longest_streak)

\* a streak broken three days ago is reported with an unset longest_streak
C8_Witness ==
    /\ op = "get_streak_info"
    /\ info.status = "broken"
    /\ info.message[2] = 3
    /\ user.current_streak = 2
    /\ user.longest_streak = None
    /\ info.longest = 0

\* C9: get_streak_info changes none of the four counters, and a call made
\* with the counters and on the date of the call before it returns the
\* same result.
C9_ReadOnly ==
    /\ [][op' = "get_streak_info" => user' = user]_vars
    /\ [][ ( /\ op' = "get_streak_info"
             /\ infoAt[2] # None
             /\ infoAt[1] = user
             /\ infoAt[2] = Today )
           => info' = info ]_vars

\* a broken streak of 2 has been reported as 0 and is still stored as 2
C9_Witness ==
    /\ op = "get_streak_info"
    /\ info.status = "broken"
    /\ info.current = 0
    /\ user.current_streak = 2

\* C10 as stated: the reported status changes only in a step that executes
\* update_streak.
C10_OnlyUpdateChangesStatus ==
    [][StatusNow' # StatusNow => op' = "update_streak"]_vars

\* C10 amended: the reported status changes only in a step that executes
\* update_streak or in which the calendar date of the clock changes;
\* get_streak_info never changes it.
C10_UpdateOrDateChangesStatus ==
    [][StatusNow' # StatusNow =>
          (op' = "update_streak" \/ date(now') # date(now))]_vars

\* update_streak has moved a user out of a broken streak, and
\* get_streak_info has then reported active_today
C10_Witness ==
    /\ op = "get_streak_info"
    /\ branch = "broken"
    /\ info.status = "active_today"
    /\ infoAt[1] = user
    /\ user.longest_streak >= 2

\* the events with which a handler answers the client
Responses == {"render_form", "redirect_dashboard"}

\* C11 as stated: every operation that successfully creates diary entries
\* invokes update_streak exactly once for each entry it creates.
C11_EveryCreationUpdatesStreak ==
    [][Len(entries') > Len(entries) =>
          Count("update_streak", log') = Len(entries') - Len(entries)]_vars

\* C12: editing, deleting and pinning an entry leave the four counters
\* unchanged; the counters change only in a request that runs update_streak.
C12_OnlyUpdateStreakChangesCounters ==
    [][ /\ op' \in {"edit_entry", "delete_entry", "toggle_favorite"} => user' = user
        /\ user' # user => (op' = "write" /\ "update_streak" \in Range(log')) ]_vars

\* the only entry of a one-day streak has been deleted and the streak stays
C12_Witness ==
    /\ op = "delete_entry"
    /\ "commit_delete" \in Range(log)
    /\ entries = <<>>
    /\ user.current_streak = 1
    /\ user.last_entry_date # None

\* C13: in the write handler update_streak runs only after the commit of
\* the new entry succeeded and before the response; when that commit fails,
\* update_streak is not run.
C13_StreakAfterEntryCommit ==
    op = "write" =>
        LET c == IndexOf("commit_entry", log)
            u == IndexOf("update_streak", log) IN
        /\ Count("update_streak", log) <= 1
        /\ u # 0 => /\ c # 0
                    /\ c < u
                    /\ \E k \in (u + 1)..Len(log) : log[k] \in Responses
        /\ "commit_entry_failed" \in Range(log) => u = 0
        /\ c # 0 => u = c + 1

\* an entry has been stored and the streak updated for it
C13_Witness ==
    /\ op = "write"
    /\ "commit_streak" \in Range(log)
    /\ Len(entries) = 1
    /\ user.current_streak = 1

\* the stored entries include one written on calendar date d
HasEntryOn(d) == \E i \in DOMAIN entries : date(entries[i].timestamp) = d

\* the number of consecutive calendar dates ending at d with a stored entry
RECURSIVE DaysWithEntries(_)
DaysWithEntries(d) ==
    IF d < 0 \/ ~HasEntryOn(d) THEN 0 ELSE 1 + DaysWithEntries(d - 1)

\* C16 as stated: current_streak is the number of consecutive calendar
\* days, ending at last_entry_date, on each of which the user has an entry.
C16_StreakCountsEntryDays ==
    user.current_streak =
        IF user.last_entry_date = None THEN 0
        ELSE DaysWithEntries(date(user.last_entry_date))

\* C14 as stated: update_streak called the day after last_entry_date for a
\* user whose longest_streak is unset completes, compares the new
\* current_streak with 0 and stores it as longest_streak.
C14_UnsetLongestCountsAsZero ==
    [][ ( /\ op' = "update_streak"
          /\ user.longest_streak = None
          /\ user.current_streak # None
          /\ user.last_entry_date # None
          /\ Today = date(user.last_entry_date) + 1 )
        => ( /\ branch' # "TypeError"
             /\ user'.current_streak = user.current_streak + 1
             /\ user'.longest_streak = user'.current_streak
             /\ date(user'.last_entry_date) = Today ) ]_vars

\* both requests have committed
RaceDone == Len(reqs) = 2 /\ reqs[1].pc = "done" /\ reqs[2].pc = "done"

\* the row left by the two calls run one after the other, first a then b,
\* from the row the first request loaded
SerialResult(a, b) ==
    update_streak(update_streak(reqs[1].snap, reqs[a].today), reqs[b].today)

\* the stored row is the result of neither serial order
NotSerializable ==
    /\ RaceDone
    /\ user # SerialResult(1, 2)
    /\ user # SerialResult(2, 1)

\* C15: two update_streak executions of one user that interleave are not
\* serializable: some interleaving leaves a row that no serial order of
\* the two calls produces.  It happens only when the second request loaded
\* the row before the first committed and the two read different dates.
C15_RaceNeedsOverlap ==
    NotSerializable => (reqs[2].overlap /\ reqs[1].today # reqs[2].today)

\* an interleaving has left a row that neither serial order produces
C15_Witness == NotSerializable

\* the statistics page has been computed
AfterStats == op = "stats"

\* the rows i of lo..hi whose mood is a positive one
PositiveIn(rows, lo, hi) ==
    Cardinality({i \in lo..hi : rows[i].mood \in PositiveMoods})

\* C17: for the list of n entries the statistics are computed from,
\* mood_improvement is null when n < 10, and otherwise the number of
\* positive moods among the first floor(n/2) entries minus the number
\* among the remaining ones.
C17_MoodImprovement ==
    AfterStats =>
        LET rows == stats.entries
            n == Len(rows)
            mid == n \div 2 IN
        IF n >= ImprovementMinEntries
        THEN stats.mood_improvement
                 = <<PositiveIn(rows, 1, mid) - PositiveIn(rows, mid + 1, n)>>
        ELSE stats.mood_improvement = <<>>

\* twelve entries listed newest first, the six newest with a positive mood
\* and the six oldest without, give 6
C17_Witness ==
    /\ AfterStats
    /\ Len(stats.entries) = 12
    /\ \A i \in 1..11 : stats.entries[i].timestamp > stats.entries[i + 1].timestamp
    /\ \A i \in 1..6 : stats.entries[i].mood \in PositiveMoods
    /\ \A i \in 7..12 : stats.entries[i].mood \notin PositiveMoods
    /\ stats.mood_improvement = <<6>>

Reverse(q) == [i \in DOMAIN q |-> q[Len(q) + 1 - i]]

\* the user's entries ordered by timestamp descending
NewestFirst == Reverse(by_timestamp(entries))

\* C18: for a user with at least 10 entries the mood_improvement shown is
\* the number of positive moods in the more recent half of the entries, by
\* timestamp, minus the number in the older half.
C18_SplitsNewestFirst ==
    (AfterStats /\ Len(entries) >= ImprovementMinEntries) =>
        LET n == Len(entries)
            mid == n \div 2 IN
        stats.mood_improvement
            = <<PositiveIn(NewestFirst, 1, mid) - PositiveIn(NewestFirst, mid + 1, n)>>

\* the places <<entry, position>> where a tag occurs in the tag lists
Occurrences(tag, rows) ==
    {pl \in (DOMAIN rows) \X (1..MaxTag) :
        pl[2] \in DOMAIN rows[pl[1]].tags /\ rows[pl[1]].tags[pl[2]] = tag}

\* place a comes before place b in the iteration over the entries
Before(a, b) == a[1] < b[1] \/ (a[1] = b[1] /\ a[2] < b[2])

\* tag s is met before tag t
MetBefore(s, t, rows) ==
    \E a \in Occurrences(s, rows) : \A b \in Occurrences(t, rows) : Before(a, b)

\* C19: tag_stats holds at most 10 tags, each with the number of its
\* occurrences in all tag lists, in descending order of count, tags of
\* equal count in the order in which they were first met, and no tag left
\* out occurs more often than a tag that is listed.
C19_TopTags ==
    AfterStats =>
        LET ts == stats.tag_stats
            rows == stats.entries
            listed == {ts[i].key : i \in DOMAIN ts} IN
        /\ Len(ts) <= TopTags
        /\ \A i, j \in DOMAIN ts : ts[i].key = ts[j].key => i = j
        /\ \A i \in DOMAIN ts :
              /\ ts[i].n = Cardinality(Occurrences(ts[i].key, rows))
              /\ ts[i].n > 0
        /\ \A i, j \in DOMAIN ts : i < j =>
              /\ ts[i].n >= ts[j].n
              /\ ts[i].n = ts[j].n => MetBefore(ts[i].key, ts[j].key, rows)
        /\ \A tag \in (1..MaxTag) \ listed : \A i \in DOMAIN ts :
              Cardinality(Occurrences(tag, rows)) <= ts[i].n

\* ten tags are listed, counts differ, two listed tags have the same
\* count, and a tag that occurs is left out
C19_Witness ==
    /\ AfterStats
    /\ Len(stats.tag_stats) = TopTags
    /\ stats.tag_stats[1].n > stats.tag_stats[TopTags].n
    /\ stats.tag_stats[TopTags - 1].n = stats.tag_stats[TopTags].n
    /\ \E tag \in 1..MaxTag :
          /\ Occurrences(tag, stats.entries) # {}
          /\ \A i \in DOMAIN stats.tag_stats : stats.tag_stats[i].key # tag

\* the rows that carry the mood label
WithMood(label, rows) == {i \in DOMAIN rows : rows[i].mood = label}

\* the labels that are moods of rows
LabelsOf(rows) == {rows[i].mood : i \in DOMAIN rows} \ {NoMood, ""}

\* C20: mood_stats maps each mood label to the number of entries that
\* carry it, entries without a mood are not counted; most_common_mood is
\* the label of highest count, among several the one met first, and null
\* when no entry has a mood.
C20_MoodCounts ==
    AfterStats =>
        LET ms == stats.mood_stats
            rows == stats.entries
            labels == LabelsOf(rows)
            top == stats.most_common_mood IN
        /\ {ms[i].key : i \in DOMAIN ms} = labels
        /\ Len(ms) = Cardinality(labels)
        /\ \A i \in DOMAIN ms : ms[i].n = Cardinality(WithMood(ms[i].key, rows))
        /\ labels = {} => top = NoMood
        /\ labels # {} =>
              /\ top \in labels
              /\ \A l \in labels :
                    /\ Cardinality(WithMood(l, rows)) <= Cardinality(WithMood(top, rows))
                    /\ (l # top /\ Cardinality(WithMood(l, rows)) = Cardinality(WithMood(top, rows)))
                          => \E i \in WithMood(top, rows) : \A j \in WithMood(l, rows) : i < j

\* an entry has no mood, two labels have the highest count, and the one
\* met first is the most common mood
C20_Witness ==
    /\ AfterStats
    /\ \E i \in DOMAIN stats.entries : stats.entries[i].mood = NoMood
    /\ \E l \in LabelsOf(stats.entries) :
          /\ l # stats.most_common_mood
          /\ Cardinality(WithMood(l, stats.entries))
                = Cardinality(WithMood(stats.most_common_mood, stats.entries))

\* C21: total_entries is the number of entries, total_words the sum of
\* their word counts, and avg_words the quotient of the two rounded to one
\* decimal place, 0 when there is no entry (avg_words is held in tenths).
C21_Totals ==
    AfterStats =>
        LET rows == stats.entries
            n == Len(rows)
            total == SumSeq([i \in DOMAIN rows |-> rows[i].word_count]) IN
        /\ stats.total_entries = n
        /\ stats.total_words = total
        /\ n = 0 => stats.avg_words = 0
        /\ n > 0 =>
              /\ 2 * (10 * total - n * stats.avg_words) <= n
              /\ 2 * (n * stats.avg_words - 10 * total) <= n

\* word counts 100, 200, 300 give 600 words and an average of 200.0
C21_Witness ==
    /\ AfterStats
    /\ [i \in DOMAIN stats.entries |-> stats.entries[i].word_count] = <<100, 200, 300>>
    /\ stats.total_words = 600
    /\ stats.avg_words = 2000

\* C22: for a user without entries the statistics are total_entries = 0,
\* total_words = 0, avg_words = 0, empty monthly_stats, mood_stats,
\* mood_trends, category_stats and tag_stats, and null most_common_mood
\* and mood_improvement; the page is rendered.
C22_EmptyStatistics ==
    (AfterStats /\ entries = <<>>) =>
        /\ stats.total_entries = 0
        /\ stats.total_words = 0
        /\ stats.avg_words = 0
        /\ stats.monthly_stats = <<>>
        /\ stats.mood_stats = <<>>
        /\ stats.mood_trends = <<>>
        /\ stats.category_stats = <<>>
        /\ stats.tag_stats = <<>>
        /\ stats.most_common_mood = NoMood
        /\ stats.mood_improvement = <<>>
        /\ log = <<"render_stats">>

\* the statistics page has been computed for a user without entries
C22_Witness ==
    /\ AfterStats
    /\ entries = <<>>
    /\ stats.entries = <<>>

\* the rows with a mood that are not older than thirty days
Trending(rows) ==
    {i \in DOMAIN rows :
        /\ has_mood(rows[i].mood)
        /\ rows[i].timestamp >= now - RecentDays * TicksPerDay}

\* C23: mood_trends is built from exactly the entries that have a mood and
\* a timestamp at or after now minus 30 days: the days listed are the days
\* of these entries, and the list of a day holds their moods in the order
\* of iteration; older entries contribute nothing.
C23_MoodTrends ==
    AfterStats =>
        LET rows == stats.entries
            mt == stats.mood_trends
            on(d) == {i \in Trending(rows) : date(rows[i].timestamp) = d} IN
        /\ {mt[k].key : k \in DOMAIN mt} = {date(rows[i].timestamp) : i \in Trending(rows)}
        /\ \A k, l \in DOMAIN mt : mt[k].key = mt[l].key => k = l
        /\ \A k \in DOMAIN mt :
              /\ Len(mt[k].moods) = Cardinality(on(mt[k].key))
              /\ \A i \in on(mt[k].key) :
                    mt[k].moods[1 + Cardinality({j \in on(mt[k].key) : j < i})]
                        = rows[i].mood

\* an entry with a mood is older than the limit, one lies exactly on it,
\* and a day lists two different moods
C23_Witness ==
    /\ AfterStats
    /\ \E i \in DOMAIN stats.entries :
          /\ has_mood(stats.entries[i].mood)
          /\ stats.entries[i].timestamp < now - RecentDays * TicksPerDay
    /\ \E i \in DOMAIN stats.entries :
          /\ has_mood(stats.entries[i].mood)
          /\ stats.entries[i].timestamp = now - RecentDays * TicksPerDay
    /\ \E k \in DOMAIN stats.mood_trends :
          /\ Len(stats.mood_trends[k].moods) = 2
          /\ stats.mood_trends[k].moods[1] # stats.mood_trends[k].moods[2]

\* C24: when the commit of the counters fails inside update_streak during
\* a write request, the handler rolls back and answers with the form: the
\* stored counters and dates are those of before the request.
C24_FailedStreakCommitRollsBack ==
    [][ (op' = "write" /\ "commit_streak_failed" \in Range(log'))
        => /\ user' = user
           /\ "rollback" \in Range(log')
           /\ log'[Len(log')] \in Responses ]_vars

\* a write request whose entry was stored and whose counter commit failed
C24_Witness ==
    /\ op = "write"
    /\ "commit_streak_failed" \in Range(log)
    /\ entries # <<>>
    /\ user = NewUser

\* C25: from a newly registered user, current_streak is at least 1
\* whenever last_entry_date is set, so the consecutive-day branch never
\* leaves current_streak at 1 and never resets streak_start_date.
C25_ConsecutiveNeverRestarts ==
    [][ /\ user'.last_entry_date # None => user'.current_streak >= 1
        /\ (op' = "update_streak" /\ branch' = "consecutive")
              => /\ user'.current_streak > 1
                 /\ user'.streak_start_date = user.streak_start_date ]_vars

\* the consecutive-day branch has extended a streak
C25_Witness ==
    /\ AfterUpdate
    /\ branch = "consecutive"
    /\ user.current_streak > 1
    /\ user.streak_start_date # None

\* C26: from a newly registered user, whenever last_entry_date is set,
\* streak_start_date is set too and lies current_streak - 1 days before
\* last_entry_date.
C26_StartPlusStreakIsLast ==
    user.last_entry_date # None =>
        /\ user.streak_start_date # None
        /\ user.streak_start_date + (user.current_streak - 1) * TicksPerDay
              = user.last_entry_date

\* a streak of several days: the start date lies before the last entry date
C26_Witness ==
    /\ AfterUpdate
    /\ user.current_streak > 1
    /\ user.streak_start_date # None
    /\ user.streak_start_date < user.last_entry_date
    /\ date(user.last_entry_date) = Today

\* get_streak_info has returned info for the stored row on today's date
InfoIsCurrent == infoAt = <<user, Today>>

\* C27: when get_streak_info returns can_extend with current = c, an
\* update_streak call on the same date sets current_streak = c + 1; when
\* it returns broken or no_entries, the call sets current_streak = 1; and
\* get_streak_info called on that date after update_streak returns
\* active_today with the stored current_streak, which is at least 1.
C27_InfoAgreesWithUpdate ==
    [][ /\ (op' = "update_streak" /\ InfoIsCurrent)
              => /\ info.status = "can_extend"
                      => user'.current_streak = info.current + 1
                 /\ info.status \in {"broken", "no_entries"}
                      => user'.current_streak = 1
        /\ (op = "update_streak" /\ op' = "get_streak_info")
              => /\ info'.status = "active_today"
                 /\ info'.current = user.current_streak
                 /\ info'.current >= 1 ]_vars

\* get_streak_info returned can_extend, update_streak extended the streak
\* on the same date, and get_streak_info then reports it as active today
C27_Witness ==
    /\ op = "get_streak_info"
    /\ branch = "consecutive"
    /\ InfoIsCurrent
    /\ info.status = "active_today"
    /\ info.current = user.current_streak
    /\ info.current > 1

\* a write request has stored its entry and the counters
WriteSaved == op = "write" /\ log # <<>> /\ log[Len(log)] = "redirect_dashboard"

\* C28: after a successful write request, last_entry_date is the calendar
\* date of the timestamp stored on the entry the request created.
C28_StreakDateIsEntryDate ==
    WriteSaved =>
        date(user.last_entry_date) = date(entries[Len(entries)].timestamp)

\* the entry of this id belongs to another user
OwnedByAnother(id) ==
    \E i \in DOMAIN entries : entries[i].id = id /\ entries[i].user_id # current_user

\* C29: a request to view, edit, delete or toggle the favorite flag of an
\* entry that belongs to another user ends in not-found and changes no
\* entry.
C29_OnlyOwnEntries ==
    [][ \A id \in EntryIds :
          ( /\ OwnedByAnother(id)
            /\ \/ ViewEntryOf(id)
               \/ EditEntryOf(id)
               \/ DeleteEntryOf(id)
               \/ ToggleFavoriteOf(id) )
          => (log' = <<"not_found">> /\ entries' = entries) ]_vars

\* every entry belongs to another user, and a request to delete one has
\* ended in not-found with the entries still stored
C29_Witness ==
    /\ op = "delete_entry"
    /\ log = <<"not_found">>
    /\ \A id \in EntryIds : OwnedByAnother(id)

\* C30: every stored entry created by the write handler has, after any
\* edits, a word_count equal to the number of words of its content.
C30_WordCountFollowsContent ==
    \A i \in DOMAIN entries :
        entries[i].word_count = text_words(entries[i].content)

====
